---- MODULE Spec2Model ----
(***************************************************************************)
(* ENTSO-E congestion-income ingestion: the multi-format parser            *)
(* (src/src/entsoe_api/parser.py) and the file-library client              *)
(* (src/src/entsoe_api/client.py).                                         *)
(*                                                                         *)
(* Texts of XML elements / table cells are strings; Python's float(),      *)
(* int() and pandas' to_datetime() are modelled as look-ups from those     *)
(* texts to numbers, so that a text and the value it parses to differ.     *)
(* Timestamps are minutes since 2023-01-01T00:00Z; NaT and NaN are the     *)
(* pandas null timestamp and the float not-a-number.                       *)
(***************************************************************************)
EXTENDS Integers, Sequences, FiniteSets, TLC

(* ----------------------------- bounds ---------------------------------- *)
\* Points of one REST-XML document (over all its periods), when the caller
\* gives it to parse_entsoe_api_xml.
MaxPoints == 3
\* The same, when the caller gives it to parse_local_or_api.
MaxDispatchPoints == 1

\* Rows of one legacy CSV/XML file.
MaxFileRows == 2
\* Entries of the file library that match one query.
MaxRemote == 3

(* ------------------------ values and conversions ----------------------- *)
\* Python's None where a text or a name is expected (an absent argument).
None == "None"
\* find() found no such child element.
Missing == "<missing>"
\* Numbers and timestamps of the model are naturals; the values below stand
\* beside them.
\* float('nan'): a float, and a pandas null.
NaN == -1
\* pandas' null timestamp.
NaT == -1
\* Python's None where a number is expected (extract_point_value found none).
NoValue == -2
\* The conversion raised.
Raises == -3

\* float(text) on the texts the model feeds it, in tenths (12.5 is 125).
ParseFloat(t) ==
    CASE t = "5"    -> 50
      [] t = "9"    -> 90
      [] t = "10"   -> 100
      [] t = "20"   -> 200
      [] t = "30"   -> 300
      [] t = " 30 " -> 300
      [] t = "12.5" -> 125
      [] t = "7"    -> 70
      [] t = "nan"  -> NaN
      [] OTHER      -> Raises

\* int(text) on the texts of a <position> element.
ParseInt(t) ==
    CASE t = "1"  -> 1
      [] t = "2"  -> 2
      [] t = "3"  -> 3
      [] t = " 2" -> 2
      [] OTHER    -> Raises

\* pd.to_datetime(text), in minutes since 2023-01-01T00:00.
ToDatetime(t) ==
    CASE t = "2023-01-01T00:00Z" -> 0
      [] t = "2023-01-01"        -> 0
      [] t = "2023-01-01T01:00"  -> 60
      [] t = "NaT"               -> NaT
      [] OTHER                   -> Raises

\* timestamp + Timedelta(minutes = m); NaT absorbs.
AddMinutes(ts, m) == IF ts = NaT THEN NaT ELSE ts + m

(* --------------------- extract_point_value ----------------------------- *)
CANDIDATE_VALUE_FIELDS ==
    << "quantity", "price.amount", "flowAmount", "amount",
       "quantity_Measure_Unit.name" >>

Tags == { CANDIDATE_VALUE_FIELDS[i] : i \in 1..Len(CANDIDATE_VALUE_FIELDS) }

\* One candidate element of a point: present, with text, and float() accepts it.
FieldParses(pt, tag) ==
    /\ pt.fields[tag] # Missing
    /\ pt.fields[tag] # ""
    /\ ParseFloat(pt.fields[tag]) # Raises

\* A mutant: the candidates are probed in reverse order.
RECURSIVE ProbeFromReversed(_, _)
ProbeFromReversed(pt, i) ==
    IF i < 1 THEN NoValue
    ELSE IF FieldParses(pt, CANDIDATE_VALUE_FIELDS[i])
         THEN ParseFloat(pt.fields[CANDIDATE_VALUE_FIELDS[i]])
         ELSE ProbeFromReversed(pt, i - 1)

\* The for loop of extract_point_value from the i-th candidate on.
RECURSIVE ProbeFrom(_, _)
ProbeFrom(pt, i) ==
    IF i > Len(CANDIDATE_VALUE_FIELDS) THEN NoValue
    ELSE IF FieldParses(pt, CANDIDATE_VALUE_FIELDS[i])
         THEN ParseFloat(pt.fields[CANDIDATE_VALUE_FIELDS[i]])
         ELSE ProbeFrom(pt, i + 1)

extract_point_value_reversed(pt) == ProbeFromReversed(pt, Len(CANDIDATE_VALUE_FIELDS))

extract_point_value(pt) == ProbeFrom(pt, 1)


\* A candidate element of the point holds a number: the contract's "valid
\* candidate field" (spec.md section 8), stated without the probing order.
HasValidCandidate(pt) == \E tag \in Tags : FieldParses(pt, tag)

(* ------------------------------ state ---------------------------------- *)
VARIABLES
    pc,            \* where the parser call in flight stands
    top,           \* the function the caller called
    content,       \* parse_local_or_api / parse_entsoe_api_xml: the bytes, or None
    path,          \* parse_local_or_api / parse_congestion_income_file: the path, or None
    invoked,       \* the decoders entered during the call
    period_start,  \* parse_entsoe_api_xml: period_start
    pos,           \* parse_entsoe_api_xml: pos
    all_rows,      \* parse_entsoe_api_xml: all_rows
    df,            \* parse_congestion_income_file: df, as read and renamed
    branch,        \* parse_congestion_income_file: the branch of the if it took
    file_read,     \* parse_congestion_income_file: it went to read the file
    result,        \* what the call gave its caller: a frame or an exception
    nPoints,       \* Point elements of the document read so far
    nValid,        \* of those points, the ones with a valid candidate field
    nEligible,     \* of those, the ones with a position, in a period with a start
    nBadPosition,  \* points read whose position is there and is not an integer
    xpt,           \* extract_point_value: its argument pt
    xvalue,        \* extract_point_value: its return value
    cpc,           \* where the client call in flight stands
    ctop,          \* the client method the caller called
    bidding_zone,  \* list_files / fetch_congestion_income: bidding_zone
    limit,         \* list_files: limit
    remote,        \* the file library: the entries that match the query, in order
    requests,      \* the GET requests the session has sent, in order
    response,      \* _get: r, the response to the last request
    meta,          \* fetch_congestion_income: meta
    idx,           \* fetch_congestion_income: the entry of meta the loop is at
    saved_files,   \* fetch_congestion_income: saved_files
    download,      \* download_file: file_id and dest_path
    disk,          \* the files under raw_dir: name -> bytes
    parent_dir,    \* the directory dest_path.parent (raw_dir) exists
    cresult        \* what the client call gave its caller

callVars == << top, content, path >>
apiVars == << period_start, pos, all_rows >>
docVars == << nPoints, nValid, nEligible, nBadPosition >>
fileVars == << df, branch, file_read >>
parserVars == << pc, callVars, invoked, apiVars, fileVars, result, docVars >>
extractVars == << xpt, xvalue >>
listVars == << bidding_zone, limit >>
fetchVars == << meta, idx, saved_files, download >>
fsVars == << disk, parent_dir >>
clientVars == << cpc, ctop, listVars, remote, requests, response, fetchVars, fsVars, cresult >>
vars == << parserVars, extractVars, clientVars >>

(* --------------------------- input alphabets --------------------------- *)
\* Texts of a candidate element given to extract_point_value on its own.
FieldTexts == { Missing, "", "abc", "5", "9", "nan" }

Points == [ position : {"1"}, fields : [Tags -> FieldTexts] ]

\* Texts of <position>; Missing: the point has no such element.
PositionTexts == { Missing, "1", "2", "3", " 2", "x" }

\* Texts of <timeInterval><start>; Missing: the period has no such element.
StartTexts == { "2023-01-01T00:00Z", "NaT", "not a date" }

\* The points of the documents given to the REST-XML decoder: quantity and
\* price.amount vary, the other three candidates are absent.
ApiPoints ==
    { [ position |-> p,
        fields   |-> [ tag \in Tags |->
                         IF tag = "quantity" THEN q
                         ELSE IF tag = "price.amount" THEN a
                         ELSE Missing ] ] :
      p \in PositionTexts,
      q \in { Missing, "", "abc", "10", " 30 ", "nan" },
      a \in { Missing, "10" } }

\* The bytes given as `content`, as far as lines 64-72 look at them: whether
\* ET.parse accepts them and whether the tree holds a TimeSeries element.
\* Periods and points are read from the document as the loops reach them.
Contents == { "not xml", "<Other/>", "<Doc><TimeSeries>..</TimeSeries></Doc>" }

\* ET.parse accepts the bytes.
Parseable(c) == c # "not xml"

\* A mutant: the check for TimeSeries elements is left out.
HasTimeSeriesUnchecked(c) == TRUE

\* root.findall(".//ns:TimeSeries") is not empty.
HasTimeSeries(c) == c = "<Doc><TimeSeries>..</TimeSeries></Doc>"

Paths == { "income.csv", "income.TXT", "income.xml", "income.json" }

\* The (content, path) pairs parse_local_or_api is called with: neither, either
\* one, and both.
DispatchArgs ==
    { << None, None >> }
        \cup { << c, None >> : c \in Contents }
        \cup { << None, p >> : p \in Paths }
        \cup { << c, p >> : c \in Contents, p \in { "income.csv" } }

(* ------------------------------ results -------------------------------- *)
NoResult == [ status |-> "none", error |-> None, detail |-> "", df |-> << >> ]
Returned(d) == [ status |-> "returned", error |-> None, detail |-> "", df |-> d ]
Raised(e) == [ status |-> "raised", error |-> e, detail |-> "", df |-> << >> ]
RaisedWith(e, detail) == [ status |-> "raised", error |-> e, detail |-> detail, df |-> << >> ]

\* The messages of the ValueErrors the parser raises itself.
ErrXmlParse == "XML parsing error"
ErrNoTimeSeries == "No <TimeSeries> elements found"
ErrNoValues == "No numeric values found in API XML"
ErrNoInput == "Either 'content' or 'path' must be provided."
ErrUnsupported == "Unsupported file format"
ErrCannotParseXml == "Cannot parse XML file"
\* Exceptions of the libraries that the parser lets through.
ErrAttribute == "AttributeError"
ErrInt == "int(): invalid literal"
ErrToDatetime == "to_datetime: unknown datetime string"
ErrKey == "KeyError"
ErrRead == "read_csv error"

\* The contract's error kinds (spec.md section 7), as the code signals them.
FormatError == { ErrXmlParse, ErrNoTimeSeries, ErrCannotParseXml }
EmptyDataError == { ErrNoValues }
InvalidArgumentError == { ErrNoInput }
UnsupportedFormatError == { ErrUnsupported }

(* ------------------------------ sorting -------------------------------- *)
\* Ascending order of timestamps with nulls last (sort_index, sort_values).
TsLeq(a, b) == \/ b = NaT
               \/ (a # NaT /\ b # NaT /\ a <= b)

IsSortedBy(d, col) ==
    \A i \in 1..Len(d) - 1 : TsLeq(d[i][col], d[i + 1][col])

Injections(n) == { f \in [1..n -> 1..n] : \A i, j \in 1..n : f[i] = f[j] => i = j }

\* A mutant: rows with a timestamp already seen are dropped.
SortedByDedup(rows, col) ==
    LET keep == { i \in 1..Len(rows) :
                    \A j \in 1..i - 1 : rows[j][col] # rows[i][col] }
        n == Cardinality(keep)
    IN  { d \in { [ i \in 1..n |-> rows[f[i]] ] :
                     f \in { g \in [1..n -> keep] :
                               \A i, j \in 1..n : g[i] = g[j] => i = j } } :
          IsSortedBy(d, col) }

\* The frames a sort by `col` may give: every ordering of the rows that is
\* ascending with nulls last (the default quicksort fixes no order among ties).
SortedBy(rows, col) ==
    { d \in { [ i \in 1..Len(rows) |-> rows[f[i]] ] : f \in Injections(Len(rows)) } :
        IsSortedBy(d, col) }

(* ------------------------- parse_local_or_api -------------------------- *)
\* A mutant: given neither, the dispatcher falls through to the file decoder.
RouteNoCheck(c, p) ==
    IF c # None THEN "parse_entsoe_api_xml" ELSE "parse_congestion_income_file"

\* A mutant: the dispatcher hands content to the legacy decoder and path to
\* the REST-XML decoder.
RouteSwapped(c, p) ==
    IF c # None THEN "parse_congestion_income_file"
    ELSE IF p # None THEN "parse_entsoe_api_xml"
    ELSE "raise"

\* Lines 181-187: which way the dispatcher goes.
Route(c, p) ==
    IF c # None THEN "parse_entsoe_api_xml"
    ELSE IF p # None THEN "parse_congestion_income_file"
    ELSE "raise"

\* The caller calls parse_local_or_api(content = a[1], path = a[2]).
CallParseLocalOrApi ==
    /\ pc = "idle"
    /\ top' = "parse_local_or_api"
    /\ \E a \in DispatchArgs : content' = a[1] /\ path' = a[2]
    /\ pc' = "parse_local_or_api"
    /\ UNCHANGED << invoked, apiVars, fileVars, result, docVars, extractVars, clientVars >>

\* The caller calls parse_entsoe_api_xml directly.
CallParseEntsoeApiXml ==
    /\ pc = "idle"
    /\ top' = "parse_entsoe_api_xml"
    /\ content' \in Contents
    /\ invoked' = { "parse_entsoe_api_xml" }
    /\ pc' = "api_parse"
    /\ UNCHANGED << path, apiVars, fileVars, result, docVars, extractVars, clientVars >>

\* The caller calls parse_congestion_income_file directly.
CallParseCongestionIncomeFile ==
    /\ pc = "idle"
    /\ top' = "parse_congestion_income_file"
    /\ path' \in Paths
    /\ invoked' = { "parse_congestion_income_file" }
    /\ pc' = "file_read"
    /\ UNCHANGED << content, apiVars, fileVars, result, docVars, extractVars, clientVars >>

\* The body of parse_local_or_api, lines 181-187.
ParseLocalOrApi ==
    /\ pc = "parse_local_or_api"
    /\ CASE Route(content, path) = "parse_entsoe_api_xml" ->
              /\ invoked' = invoked \cup { "parse_entsoe_api_xml" }
              /\ pc' = "api_parse"
              /\ UNCHANGED result
         [] Route(content, path) = "parse_congestion_income_file" ->
              /\ invoked' = invoked \cup { "parse_congestion_income_file" }
              /\ pc' = "file_read"
              /\ UNCHANGED result
         [] OTHER ->
              /\ result' = Raised(ErrNoInput)
              /\ pc' = "done"
              /\ UNCHANGED invoked
    /\ UNCHANGED << callVars, apiVars, fileVars, docVars, extractVars, clientVars >>

(* ------------------------ parse_entsoe_api_xml ------------------------- *)
\* The points the document in hand may hold.
PointBudget == IF top = "parse_local_or_api" THEN MaxDispatchPoints ELSE MaxPoints

\* Lines 64-74: parse the bytes, find the TimeSeries elements.
ApiParse ==
    /\ pc = "api_parse"
    /\ IF ~Parseable(content)
       THEN /\ result' = Raised(ErrXmlParse)
            /\ pc' = "done"
            /\ UNCHANGED all_rows
       ELSE IF ~HasTimeSeries(content)
       THEN /\ result' = Raised(ErrNoTimeSeries)
            /\ pc' = "done"
            /\ UNCHANGED all_rows
       ELSE /\ all_rows' = << >>
            /\ pc' = "api_periods"
            /\ UNCHANGED result
    /\ UNCHANGED << callVars, invoked, period_start, pos, fileVars, docVars, extractVars, clientVars >>

\* Lines 78-82: the next Period (of this or a later TimeSeries) has no start
\* element; its n points, v of them with a valid candidate, are never read.
ApiPeriodNoStart ==
    /\ pc = "api_periods"
    /\ \E n \in 0..(PointBudget - nPoints) : \E v \in 0..n :
          /\ nPoints' = nPoints + n
          /\ nValid' = nValid + v
    /\ UNCHANGED << pc, callVars, invoked, apiVars, fileVars, result, nEligible, nBadPosition,
                    extractVars, clientVars >>

\* Lines 80-86: the next Period has a start element, with text t.
ApiPeriodStart ==
    /\ pc = "api_periods"
    /\ \E t \in StartTexts :
          IF ToDatetime(t) = Raises
          THEN /\ result' = Raised(ErrToDatetime)
               /\ pc' = "done"
               /\ UNCHANGED period_start
          ELSE /\ period_start' = ToDatetime(t)
               /\ pc' = "api_points"
               /\ UNCHANGED result
    /\ UNCHANGED << callVars, invoked, pos, all_rows, fileVars,
                    docVars, extractVars, clientVars >>

\* A mutant: positions are taken as 0-indexed.
PointTimestampZeroIndexed(start, p) == AddMinutes(start, 15 * p)

\* Line 99.
PointTimestamp(start, p) == AddMinutes(start, 15 * (p - 1))

\* A mutant: a point without a parseable value is kept, with a null value.
KeepsPointAlways(value) == TRUE

\* Lines 96-97: whether the point is kept.
KeepsPoint(value) == value # NoValue

\* What line 101 appends: None stored in a float column is NaN.
RowValue(value) == IF value = NoValue THEN NaN ELSE value

\* A mutant: a point whose position is not an integer is passed over too.
SkipsPointLenient(position) == position = Missing \/ ParseInt(position) = Raises

\* A mutant: the position is read without the test for its element.
SkipsPointNever(position) == FALSE

\* Lines 88-91: a point without a position element is passed over.
SkipsPoint(position) == position = Missing

\* Lines 87-101: the loop body for the next Point, pt, of the period.
ApiPoint ==
    /\ pc = "api_points"
    /\ nPoints < PointBudget
    /\ nPoints' = nPoints + 1
    /\ \E pt \in ApiPoints :
          /\ nValid' = nValid + (IF HasValidCandidate(pt) THEN 1 ELSE 0)
          /\ nBadPosition' = nBadPosition +
                (IF pt.position # Missing /\ ParseInt(pt.position) = Raises THEN 1 ELSE 0)
          /\ IF SkipsPoint(pt.position)
             THEN UNCHANGED << pc, pos, all_rows, result, nEligible >>
             ELSE IF ParseInt(pt.position) = Raises
             THEN /\ result' = Raised(IF pt.position = Missing THEN ErrAttribute ELSE ErrInt)
                  /\ pc' = "done"
                  /\ UNCHANGED << pos, all_rows, nEligible >>
             ELSE /\ pos' = ParseInt(pt.position)
                  /\ nEligible' = nEligible + (IF HasValidCandidate(pt) THEN 1 ELSE 0)
                  /\ IF KeepsPoint(extract_point_value(pt))
                     THEN all_rows' = Append(all_rows,
                              [ Timestamp  |-> PointTimestamp(period_start, pos'),
                                RevenueEUR |-> RowValue(extract_point_value(pt)) ])
                     ELSE UNCHANGED all_rows
                  /\ UNCHANGED << pc, result >>
    /\ UNCHANGED << callVars, invoked, period_start, fileVars, extractVars, clientVars >>

\* Line 87: the period has no further Point.
ApiEndPeriod ==
    /\ pc = "api_points"
    /\ pc' = "api_periods"
    /\ UNCHANGED << callVars, invoked, apiVars, fileVars, result, docVars, extractVars, clientVars >>

\* Lines 76-78 run out of periods, then lines 103-108.
ApiFinish ==
    /\ pc = "api_periods"
    /\ pc' = "done"
    /\ IF all_rows = << >>
       THEN result' = Raised(ErrNoValues)
       ELSE \E d \in SortedBy(all_rows, "Timestamp") : result' = Returned(d)
    /\ UNCHANGED << callVars, invoked, apiVars, fileVars, docVars, extractVars, clientVars >>

(* -------------------- parse_congestion_income_file --------------------- *)
\* path.suffix.lower()
Suffix(p) ==
    CASE p = "income.csv"  -> ".csv"
      [] p = "income.TXT"  -> ".txt"
      [] p = "income.xml"  -> ".xml"
      [] p = "income.json" -> ".json"
      [] OTHER             -> ""

\* Lines 128-133.
CsvRename(name) ==
    CASE name = "start"         -> "Start"
      [] name = "end"           -> "End"
      [] name = "revenue"       -> "RevenueEUR"
      [] name = "Revenue (EUR)" -> "RevenueEUR"
      [] OTHER                  -> name

\* Lines 145-149.
XmlRename(name) ==
    CASE name = "Period.start"            -> "Start"
      [] name = "Period.end"              -> "End"
      [] name = "CongestionIncome.amount" -> "RevenueEUR"
      [] OTHER                            -> name

\* The tables a file may hold: a header and up to MaxFileRows rows of cell texts.
FileHeaders ==
    { << "start", "end", "revenue" >>,
      << "Start", "End", "Revenue (EUR)" >>,
      << "Period.start", "Period.end", "CongestionIncome.amount" >>,
      << "start", "revenue" >>,
      << "start", "end" >> }

CellTexts(name) ==
    IF name \in { "start", "Start", "Period.start" }
    THEN { "2023-01-01", "2023-01-01T01:00", "n/a" }
    ELSE IF name \in { "end", "End", "Period.end" }
    THEN { "2023-01-01T01:00", "n/a" }
    ELSE { "12.5", "7", "n/a" }

FileRows(h) ==
    { r \in [ 1..Len(h) -> { "2023-01-01", "2023-01-01T01:00", "n/a", "12.5", "7" } ] :
        \A i \in 1..Len(h) : r[i] \in CellTexts(h[i]) }

Tables ==
    UNION { { [ columns |-> h, rows |-> rs ] :
                rs \in UNION { [ 1..n -> FileRows(h) ] : n \in 0..MaxFileRows } } :
            h \in FileHeaders }

NoFrame == [ columns |-> << >>, rows |-> << >> ]

\* df.rename(columns = ...) of the branch taken.
Renamed(t, taken) ==
    [ columns |-> [ i \in 1..Len(t.columns) |->
                      IF taken = "xml" THEN XmlRename(t.columns[i])
                      ELSE CsvRename(t.columns[i]) ],
      rows    |-> t.rows ]

HasColumn(t, name) == \E i \in 1..Len(t.columns) : t.columns[i] = name

Column(t, name) == CHOOSE i \in 1..Len(t.columns) : t.columns[i] = name

\* pd.to_datetime(errors = "coerce"), pd.to_numeric(errors = "coerce").
ToDatetimeCoerce(t) == IF ToDatetime(t) = Raises THEN NaT ELSE ToDatetime(t)
ToNumericCoerce(t) == IF ParseFloat(t) = Raises THEN NaN ELSE ParseFloat(t)

\* A mutant: a file of any other extension is tried as CSV.
BranchOfSniffing(suffix) ==
    IF suffix = ".xml" THEN "xml" ELSE "csv"

\* Lines 126, 138 and 151: the branch for a suffix; None: the else branch.
BranchOf(suffix) ==
    IF suffix \in { ".csv", ".txt" } THEN "csv"
    ELSE IF suffix = ".xml" THEN "xml"
    ELSE None

\* Lines 121-152: choose the branch by the suffix, read the file, rename.
\* The file at `path` is unreadable, or holds one of Tables.
FileRead ==
    /\ pc = "file_read"
    /\ branch' = BranchOf(Suffix(path))
    /\ file_read' = (branch' # None)
    /\ IF branch' = "csv"
       THEN \/ /\ \E t \in Tables : df' = Renamed(t, branch')
               /\ pc' = "file_clean"
               /\ UNCHANGED result
            \/ /\ result' = Raised(ErrRead)
               /\ pc' = "done"
               /\ UNCHANGED df
       ELSE IF branch' = "xml"
       THEN \/ /\ \E t \in Tables : df' = Renamed(t, branch')
               /\ pc' = "file_clean"
               /\ UNCHANGED result
            \/ /\ result' = Raised(ErrCannotParseXml)
               /\ pc' = "done"
               /\ UNCHANGED df
       ELSE /\ result' = RaisedWith(ErrUnsupported, Suffix(path))
            /\ pc' = "done"
            /\ UNCHANGED df
    /\ UNCHANGED << callVars, invoked, apiVars, docVars, extractVars, clientVars >>

\* A mutant: only a null Start drops the row.
DropsRowStartOnly(start, revenue) == start = NaT

\* Line 164: dropna(subset = ["Start", "RevenueEUR"]).
DropsRow(start, revenue) == start = NaT \/ revenue = NaN

\* Lines 157-166 on the frame df, once its three columns are known to exist.
Cleaned(t) ==
    LET row(i) == [ Start      |-> ToDatetimeCoerce(t.rows[i][Column(t, "Start")]),
                    End        |-> ToDatetimeCoerce(t.rows[i][Column(t, "End")]),
                    RevenueEUR |-> ToNumericCoerce(t.rows[i][Column(t, "RevenueEUR")]) ]
        kept == { i \in 1..Len(t.rows) : ~DropsRow(row(i).Start, row(i).RevenueEUR) }
        n == Cardinality(kept)
        \* the kept rows, in file order
        RECURSIVE InOrder(_)
        InOrder(i) == IF i > Len(t.rows) THEN << >>
                      ELSE IF i \in kept THEN << row(i) >> \o InOrder(i + 1)
                      ELSE InOrder(i + 1)
    IN  InOrder(1)

\* Lines 157-166: coerce, drop, project, sort.
FileClean ==
    /\ pc = "file_clean"
    /\ pc' = "done"
    /\ IF ~HasColumn(df, "Start") \/ ~HasColumn(df, "RevenueEUR") \/ ~HasColumn(df, "End")
       THEN result' = Raised(ErrKey)
       ELSE \E d \in SortedBy(Cleaned(df), "Start") : result' = Returned(d)
    /\ UNCHANGED << callVars, invoked, apiVars, fileVars, docVars, extractVars, clientVars >>

(* ------------------- extract_point_value on its own -------------------- *)
NoPoint == [ position |-> Missing, fields |-> [ tag \in Tags |-> Missing ] ]
Pending == -4

\* extract_point_value(xpt) returns.
Extract ==
    /\ xvalue = Pending
    /\ xvalue' = extract_point_value(xpt)
    /\ UNCHANGED << parserVars, xpt, clientVars >>

(* --------------------------- EntsoeClient ------------------------------ *)
\* config.py, lines 14-18.
DOMAIN_MAP ==
    [ z \in { "DK_2", "DK_1", "SE_4" } |->
        CASE z = "DK_2" -> "10YDK-2--------M"
          [] z = "DK_1" -> "10YDK-1--------W"
          [] z = "SE_4" -> "10Y1001A1001A82H" ]

CONGESTION_INCOME_CATEGORY == "12.1.E"

\* list_files' default for limit.
DefaultLimit == 200

\* The bidding zones callers ask for; NO_1 is not in DOMAIN_MAP.
Zones == { "DK_2", "DK_1", "SE_4", "NO_1" }
Limits == { 1, 2, DefaultLimit }

FileIds == { "id1", "id2" }
FileNames == { "a.xml", "b.csv" }
Entries == [ fileId : FileIds, fileName : FileNames ]
Remotes == UNION { [ 1..n -> Entries ] : n \in 0..MaxRemote }

\* The bytes the library serves for a file, and no file.
BytesOf(file_id) == << "bytes of", file_id >>
NoFile == << >>

\* The bytes of a file that was at dest_path before the call.
OldBytes == << "bytes of", "an earlier download" >>

\* The HTTP statuses the library answers with.
Statuses == { 200, 304, 401, 500 }

\* r.ok: the status is below 400.
Ok(status) == status < 400

\* r.text: the characters of the body of an answer, here of 0, 3, 500 and 501
\* characters.
BodyText(n) == [ i \in 1..n |-> IF i % 2 = 1 THEN "e" ELSE "r" ]
BodyTexts == { BodyText(0), BodyText(3), BodyText(500), BodyText(501) }

\* A mutant: the whole body goes into the message.
ExcerptWhole(text) == text

\* Line 35: r.text[:500].
Excerpt(text) == SubSeq(text, 1, IF Len(text) < 500 THEN Len(text) ELSE 500)

\* r.content of an answer that is ok but is not the file (a 3xx answer).
OtherBody == << "body of", "a 3xx answer" >>

\* r.content of the answer to a download request.
ServedBody(status, file_id) ==
    IF status = 200 THEN BytesOf(file_id) ELSE IF Ok(status) THEN OtherBody ELSE NoFile

NoRequest == [ endpoint |-> "", page |-> 0, size |-> 0, category |-> "", area |-> "", fileId |-> "" ]
NoResponse == [ status |-> 0, json |-> "", content |-> << >>, body |-> NoFile, text |-> << >> ]
NoDownload == [ file_id |-> "", dest_path |-> "" ]

CReturned(v) ==
    [ status |-> "returned", error |-> None, code |-> 0, excerpt |-> << >>, value |-> v ]
CRaised(e, code, excerpt) ==
    [ status |-> "raised", error |-> e, code |-> code, excerpt |-> excerpt, value |-> << >> ]
CNoResult ==
    [ status |-> "none", error |-> None, code |-> 0, excerpt |-> << >>, value |-> << >> ]

\* The exceptions of the client: _get's ValueError, and DOMAIN_MAP's KeyError.
ErrRequestFailed == "ENTSO-E Request failed"
ErrJson == "JSONDecodeError"
ErrOpen == "OSError"
UnknownZoneError == { ErrKey }
DataSourceError == { ErrRequestFailed }

\* The first n elements of a sequence.
Take(seq, n) == SubSeq(seq, 1, IF n < Len(seq) THEN n ELSE Len(seq))

\* GET {base}/v1/files?page=..&size=..: the entries of that page of the result
\* set (spec.md section 6).
Page(page, size) ==
    IF page * size >= Len(remote) THEN << >>
    ELSE Take(SubSeq(remote, page * size + 1, Len(remote)), size)

\* A mutant: a zone the registry does not know is passed on as the area code.
AreaOfZoneLenient(zone) == IF zone \in DOMAIN DOMAIN_MAP THEN DOMAIN_MAP[zone] ELSE zone

\* Line 55: DOMAIN_MAP[bidding_zone]; None: the look-up raises KeyError.
AreaOfZone(zone) == IF zone \in DOMAIN DOMAIN_MAP THEN DOMAIN_MAP[zone] ELSE None

\* A mutant: the page size is left to the server.
ListParamsNoSize(category, area, lim) ==
    [ endpoint |-> "v1/files", page |-> 0, size |-> DefaultLimit, category |-> category,
      area |-> area, fileId |-> "" ]

\* Lines 57-67: the request list_files sends.
ListParams(category, area, lim) ==
    [ endpoint |-> "v1/files", page |-> 0, size |-> lim, category |-> category,
      area |-> area, fileId |-> "" ]

\* Line 81: the request download_file sends.
DownloadParams(file_id) ==
    [ endpoint |-> "v1/files/download", page |-> 0, size |-> 0, category |-> "",
      area |-> "", fileId |-> file_id ]

\* The caller calls list_files(CONGESTION_INCOME_CATEGORY, start, end, zone, limit).
CallListFiles ==
    /\ cpc = "idle"
    /\ ctop' = "list_files"
    /\ bidding_zone' \in Zones
    /\ limit' \in Limits
    /\ cpc' = "list_files"
    /\ UNCHANGED << remote, requests, response, fetchVars, fsVars, cresult,
                    parserVars, extractVars >>

\* The caller calls fetch_congestion_income(zone, start, end, raw_dir); lines
\* 106-111 call list_files without a limit.
CallFetchCongestionIncome ==
    /\ cpc = "idle"
    /\ ctop' = "fetch_congestion_income"
    /\ bidding_zone' \in Zones
    /\ limit' = DefaultLimit
    /\ cpc' = "list_files"
    /\ UNCHANGED << remote, requests, response, fetchVars, fsVars, cresult,
                    parserVars, extractVars >>

\* The caller calls download_file(file_id, raw_dir / name).
CallDownloadFile ==
    /\ cpc = "idle"
    /\ ctop' = "download_file"
    /\ \E f \in FileIds, name \in FileNames :
          download' = [ file_id |-> f, dest_path |-> name ]
    /\ cpc' = "download_file"
    /\ UNCHANGED << listVars, remote, requests, response, meta, idx, saved_files,
                    fsVars, cresult, parserVars, extractVars >>

\* The bodies of an ok answer to a list request: a JSON object with "content",
\* one without, and a body r.json() does not decode.
ListBodies == { "content", "no content", "not json" }

\* list_files, lines 55-71: resolve the zone, send the one request, return the
\* content of the answer. An answer without "content" gives [].
ListFiles ==
    /\ cpc = "list_files"
    /\ IF AreaOfZone(bidding_zone) = None
       THEN /\ cresult' = CRaised(ErrKey, 0, << >>)
            /\ cpc' = "done"
            /\ UNCHANGED << requests, response, meta >>
       ELSE /\ requests' = Append(requests,
                   ListParams(CONGESTION_INCOME_CATEGORY, AreaOfZone(bidding_zone), limit))
            /\ \E status \in Statuses, body \in ListBodies, text \in BodyTexts :
                  /\ Ok(status) => text = << >>
                  /\ ~Ok(status) => body = "not json"
                  /\ response' =
                        [ status  |-> status,
                          json    |-> body,
                          content |-> IF body = "content"
                                      THEN Page(requests'[Len(requests')].page,
                                                requests'[Len(requests')].size)
                                      ELSE << >>,
                          body    |-> NoFile,
                          text    |-> text ]
                  /\ IF ~Ok(status)
                     THEN /\ cresult' = CRaised(ErrRequestFailed, status, Excerpt(text))
                          /\ cpc' = "done"
                          /\ UNCHANGED meta
                     ELSE IF body = "not json"
                     THEN /\ cresult' = CRaised(ErrJson, 0, << >>)
                          /\ cpc' = "done"
                          /\ UNCHANGED meta
                     ELSE IF ctop = "list_files"
                     THEN /\ cresult' = CReturned(response'.content)
                          /\ cpc' = "done"
                          /\ UNCHANGED meta
                     ELSE /\ meta' = response'.content
                          /\ cpc' = "fetch_listed"
                          /\ UNCHANGED cresult
    /\ UNCHANGED << ctop, listVars, remote, idx, saved_files, download, fsVars,
                    parserVars, extractVars >>

\* A mutant: an empty listing is an error.
NoFilesFoundRaises == CRaised("No files found", 0, << >>)

\* Lines 113-115: what fetch_congestion_income gives for an empty listing.
NoFilesFound == CReturned(<< >>)

\* fetch_congestion_income, lines 113-117.
FetchListed ==
    /\ cpc = "fetch_listed"
    /\ IF Len(meta) = 0
       THEN /\ cresult' = NoFilesFound
            /\ cpc' = "done"
            /\ UNCHANGED << idx, saved_files >>
       ELSE /\ saved_files' = << >>
            /\ idx' = 1
            /\ cpc' = "fetch_loop"
            /\ UNCHANGED cresult
    /\ UNCHANGED << ctop, listVars, remote, requests, response, meta, download, fsVars,
                    parserVars, extractVars >>

\* A mutant: the loop goes through the listing from its end.
EntryAtReversed(m, i) == m[Len(m) + 1 - i]

\* Line 119: the entry the i-th round of `for m in meta` is at.
EntryAt(m, i) == m[i]

\* A mutant: every file of the batch is saved under one name.
DestPathFixed(m) == "a.xml"

\* Lines 121-122: dest = raw_dir / fname, the file named fname under raw_dir.
DestPath(m) == m.fileName

\* fetch_congestion_income, lines 119-129: the next entry of meta, or the end.
FetchLoop ==
    /\ cpc = "fetch_loop"
    /\ IF idx > Len(meta)
       THEN /\ cresult' = CReturned(saved_files)
            /\ cpc' = "done"
            /\ UNCHANGED download
       ELSE /\ download' = [ file_id   |-> EntryAt(meta, idx).fileId,
                             dest_path |-> DestPath(EntryAt(meta, idx)) ]
            /\ cpc' = "download_file"
            /\ UNCHANGED cresult
    /\ UNCHANGED << ctop, listVars, remote, requests, response, meta, idx, saved_files,
                    fsVars, parserVars, extractVars >>

\* A mutant: the loop of fetch_congestion_income catches the exception of a
\* download and goes on with the entry it is at.
FailedDownloadRetried(caller) ==
    IF caller = "fetch_congestion_income" THEN "fetch_loop" ELSE "done"

\* Lines 119-127: an exception of download_file is caught nowhere; the call
\* of either caller ends with it.
FailedDownload(caller) == "done"

\* A mutant: the files the batch saved are removed when a download fails.
DiskRolledBack(d, saved) ==
    [ name \in DOMAIN d |->
        IF \E i \in 1..Len(saved) : saved[i] = name THEN NoFile ELSE d[name] ]

\* Lines 83 and 119-127: the files under raw_dir after a download raised; no
\* statement touches the files saved before.
DiskAfterFailure(d, saved) == d

\* A mutant: the parent directory is made before the request is sent.
ParentDirMadeFirst(status, existed) == TRUE

\* Lines 83-84: _get raises before dest_path.parent.mkdir(parents = True,
\* exist_ok = True) is reached; after it the directory exists.
ParentDirAfter(status, existed) == IF Ok(status) THEN TRUE ELSE existed

\* download_file, lines 81-89: get the bytes, write them to dest_path, return
\* dest_path (to the caller, or to the loop of fetch_congestion_income).
\* opens: open(dest_path, "wb") succeeds; if not, it raises OSError, after
\* the parent directory was made.
DownloadFile ==
    /\ cpc = "download_file"
    /\ requests' = Append(requests, DownloadParams(download.file_id))
    /\ \E status \in Statuses, text \in BodyTexts, opens \in BOOLEAN :
          /\ Ok(status) => text = << >>
          /\ ~Ok(status) => opens
          /\ response' = [ status  |-> status, json |-> "", content |-> << >>,
                           body    |-> ServedBody(status, download.file_id),
                           text    |-> text ]
          /\ parent_dir' = ParentDirAfter(status, parent_dir)
          /\ IF ~Ok(status)
             THEN /\ cresult' = CRaised(ErrRequestFailed, status, Excerpt(text))
                  /\ cpc' = FailedDownload(ctop)
                  /\ disk' = DiskAfterFailure(disk, saved_files)
                  /\ UNCHANGED << saved_files, idx >>
             ELSE IF ~opens
             THEN /\ cresult' = CRaised(ErrOpen, 0, << >>)
                  /\ cpc' = FailedDownload(ctop)
                  /\ disk' = DiskAfterFailure(disk, saved_files)
                  /\ UNCHANGED << saved_files, idx >>
             ELSE /\ disk' = [ disk EXCEPT ![download.dest_path] = response'.body ]
                  /\ IF ctop = "download_file"
                     THEN /\ cresult' = CReturned(<< download.dest_path >>)
                          /\ cpc' = "done"
                          /\ UNCHANGED << saved_files, idx >>
                     ELSE /\ saved_files' = Append(saved_files, download.dest_path)
                          /\ idx' = idx + 1
                          /\ cpc' = "fetch_loop"
                          /\ UNCHANGED cresult
    /\ UNCHANGED << ctop, listVars, remote, meta, download, parserVars, extractVars >>

(* --------------------------- specifications ---------------------------- *)
InitParser ==
    /\ pc = "idle"
    /\ top = None
    /\ content = None
    /\ path = None
    /\ invoked = {}
    /\ period_start = NaT
    /\ pos = 0
    /\ all_rows = << >>
    /\ df = NoFrame
    /\ branch = None
    /\ file_read = FALSE
    /\ result = NoResult
    /\ nPoints = 0
    /\ nValid = 0
    /\ nEligible = 0
    /\ nBadPosition = 0

InitClient ==
    /\ cpc = "idle"
    /\ ctop = None
    /\ bidding_zone = None
    /\ limit = 0
    /\ requests = << >>
    /\ response = NoResponse
    /\ meta = << >>
    /\ idx = 0
    /\ saved_files = << >>
    /\ download = NoDownload
    /\ disk = [ name \in FileNames |-> NoFile ]
    /\ parent_dir = FALSE
    /\ cresult = CNoResult

\* The parser: one call of one of its three functions.
Init ==
    /\ InitParser
    /\ xpt = NoPoint
    /\ xvalue = NoValue
    /\ InitClient
    /\ remote = << >>

Next ==
    \/ CallParseLocalOrApi
    \/ CallParseEntsoeApiXml
    \/ CallParseCongestionIncomeFile
    \/ ParseLocalOrApi
    \/ ApiParse
    \/ ApiPeriodNoStart
    \/ ApiPeriodStart
    \/ ApiPoint
    \/ ApiEndPeriod
    \/ ApiFinish
    \/ FileRead
    \/ FileClean

Spec == Init /\ [][Next]_vars

\* extract_point_value applied to every point over FieldTexts.
InitExtract ==
    /\ InitParser
    /\ xpt \in Points
    /\ xvalue = Pending
    /\ InitClient
    /\ remote = << >>

NextExtract == Extract

SpecExtract == InitExtract /\ [][NextExtract]_vars

\* The client: one call of one of its three methods, against a file library
\* that holds any of Remotes for the query.
InitClientSpec ==
    /\ InitParser
    /\ xpt = NoPoint
    /\ xvalue = NoValue
    /\ InitClient
    /\ remote \in Remotes

NextClient ==
    \/ CallListFiles
    \/ CallFetchCongestionIncome
    \/ CallDownloadFile
    \/ ListFiles
    \/ FetchListed
    \/ FetchLoop
    \/ DownloadFile

SpecClient == InitClientSpec /\ [][NextClient]_vars

\* download_file on its own, with raw_dir as it may be before the call: absent,
\* empty, or holding files of earlier downloads.
InitDownload ==
    /\ InitParser
    /\ xpt = NoPoint
    /\ xvalue = NoValue
    /\ remote = << >>
    /\ cpc = "idle"
    /\ ctop = None
    /\ bidding_zone = None
    /\ limit = 0
    /\ requests = << >>
    /\ response = NoResponse
    /\ meta = << >>
    /\ idx = 0
    /\ saved_files = << >>
    /\ download = NoDownload
    /\ cresult = CNoResult
    /\ disk \in [ FileNames -> { NoFile, OldBytes } ]
    /\ parent_dir \in BOOLEAN
    /\ (\E name \in FileNames : disk[name] # NoFile) => parent_dir

NextDownload ==
    \/ CallDownloadFile
    \/ DownloadFile

SpecDownload == InitDownload /\ [][NextDownload]_vars

(* ------------------------------- claims -------------------------------- *)
\* The call in flight went through the REST-XML decoder / has ended.
ApiCall == "parse_entsoe_api_xml" \in invoked
Done == pc = "done"
DispatcherRan == top = "parse_local_or_api" /\ pc # "parse_local_or_api"

\* How often row r occurs in the sequence rows.
Count(r, rows) == Cardinality({ i \in 1..Len(rows) : rows[i] = r })

\* C1 (as claimed): parse_local_or_api called with both content and path raises
\* InvalidArgumentError and enters neither decoder.
C1_BothGivenRaises ==
    (DispatcherRan /\ content # None /\ path # None)
        => /\ invoked = {}
           /\ result.status = "raised"
           /\ result.error \in InvalidArgumentError

\* C2: parse_local_or_api called with neither content nor path raises
\* InvalidArgumentError and enters neither decoder.
C2_NeitherGivenRaises ==
    (DispatcherRan /\ content = None /\ path = None)
        => /\ invoked = {}
           /\ Done
           /\ result.status = "raised"
           /\ result.error \in InvalidArgumentError
           /\ result.df = << >>

C2_Witness ==
    DispatcherRan /\ content = None /\ path = None /\ Done

\* C3: whenever the REST-XML decoder emits a point, the timestamp of the row it
\* appends is the start of the period in hand plus 15 minutes times
\* (position - 1), position being the integer read from the point.
C3_TimestampFromPosition ==
    [][ (pc = "api_points" /\ all_rows' # all_rows)
            => /\ Len(all_rows') = Len(all_rows) + 1
               /\ pos' \in 1..3
               /\ all_rows'[Len(all_rows')].Timestamp =
                     (IF period_start = NaT THEN NaT
                      ELSE period_start + 15 * (pos' - 1)) ]_vars

\* Positions 1, 2, 3 of a period starting at 00:00 with quantities 10, 30, 10
\* have decoded to 00:00 -> 10, 00:15 -> 30, 00:30 -> 10.
C3_Witness ==
    /\ ApiCall /\ Done /\ nPoints = 3 /\ period_start = 0
    /\ all_rows = << [ Timestamp |-> 0,  RevenueEUR |-> 100 ],
                     [ Timestamp |-> 15, RevenueEUR |-> 300 ],
                     [ Timestamp |-> 30, RevenueEUR |-> 100 ] >>
    /\ result = Returned(all_rows)

\* The order of the candidate fields as the contract gives it.
ClaimedOrder ==
    << "quantity", "price.amount", "flowAmount", "amount",
       "quantity_Measure_Unit.name" >>

\* C4: the value extracted from a point is that of the first field, in the
\* order quantity, price.amount, flowAmount, amount, quantity_Measure_Unit.name,
\* that is present with non-empty, parseable text; fields that are absent,
\* empty or unparseable are passed over; with quantity=5 and price.amount=9
\* the value is 5; with no such field there is no value.
C4_FirstParseableCandidateWins ==
    xvalue # Pending =>
        LET good == { i \in 1..Len(ClaimedOrder) :
                        /\ xpt.fields[ClaimedOrder[i]] \notin { Missing, "" }
                        /\ ParseFloat(xpt.fields[ClaimedOrder[i]]) # Raises }
            first == CHOOSE i \in good : \A j \in good : i <= j
        IN  /\ good = {} => xvalue = NoValue
            /\ good # {} => xvalue = ParseFloat(xpt.fields[ClaimedOrder[first]])
            /\ (xpt.fields["quantity"] = "5" /\ xpt.fields["price.amount"] = "9")
                  => xvalue = 50

\* quantity is unparseable, price.amount is empty, flowAmount and amount both
\* hold a number: the value is flowAmount's.
C4_Witness ==
    /\ xpt.fields["quantity"] = "abc"
    /\ xpt.fields["price.amount"] = ""
    /\ xpt.fields["flowAmount"] = "9"
    /\ xpt.fields["amount"] = "5"
    /\ xvalue = 90

\* The bytes given to the decoder hold no document / a document without a
\* TimeSeries element / a document with TimeSeries elements.
NotXml == content = "not xml"
NoTimeSeries == content = "<Other/>"
WithTimeSeries == content = "<Doc><TimeSeries>..</TimeSeries></Doc>"

\* C5 (as claimed): the REST-XML decoder fails with FormatError on bytes that do
\* not parse or hold no TimeSeries, and with EmptyDataError on every document
\* that holds a TimeSeries and yields no (timestamp, value) pair; the two kinds
\* differ and no series is returned.
C5_TwoErrorKinds ==
    (ApiCall /\ Done) =>
        /\ FormatError \cap EmptyDataError = {}
        /\ (NotXml \/ NoTimeSeries)
              => (result.status = "raised" /\ result.error \in FormatError)
        /\ (WithTimeSeries /\ all_rows = << >>)
              => (result.status = "raised" /\ result.error \in EmptyDataError)

\* C5 (amended): as above, where the second case is that of a document whose
\* period starts and point positions were all read without an exception.
C5_TwoErrorKindsWhenRead ==
    (ApiCall /\ Done) =>
        /\ FormatError \cap EmptyDataError = {}
        /\ (NotXml \/ NoTimeSeries)
              => /\ result.status = "raised"
                 /\ result.error \in FormatError
        /\ (WithTimeSeries /\ all_rows = << >>
               /\ result.error \notin { ErrInt, ErrToDatetime })
              => /\ result.status = "raised"
                 /\ result.error \in EmptyDataError
        /\ result.status = "raised" => result.df = << >>

\* A document with a TimeSeries whose points (two of them read) gave no pair.
C5_Witness ==
    /\ ApiCall /\ Done /\ WithTimeSeries
    /\ nPoints = 2 /\ all_rows = << >>
    /\ result = Raised(ErrNoValues)

\* The column a decoder's frame is ordered by.
TimeColumn == IF ApiCall THEN "Timestamp" ELSE "Start"

\* C6 (as claimed): every series either decoder returns is non-decreasing in
\* timestamp and holds no null timestamp and no null revenue value.
C6_SortedNoNulls ==
    (Done /\ result.status = "returned") =>
        /\ \A i \in 1..Len(result.df) - 1 :
              result.df[i][TimeColumn] <= result.df[i + 1][TimeColumn]
        /\ \A i \in 1..Len(result.df) :
              /\ result.df[i][TimeColumn] # NaT
              /\ result.df[i].RevenueEUR # NaN

\* C7 (as claimed): the rows of the REST-XML decoder's series are as many as the
\* input points with at least one valid candidate field.
C7_RowsEqualValidPoints ==
    (ApiCall /\ Done /\ result.status = "returned") => Len(result.df) = nValid

\* C7 (amended): the rows are as many as the input points that have at least
\* one valid candidate field, have a position and lie in a period with a start;
\* points without a valid candidate field are not among them.
C7_RowsEqualEligiblePoints ==
    /\ ApiCall => Len(all_rows) = nEligible /\ nEligible <= nValid /\ nValid <= nPoints
    /\ (ApiCall /\ Done /\ result.status = "returned") => Len(result.df) = nEligible

\* Three points read: one without a valid candidate, one with a valid candidate
\* but skipped, one decoded.
C7_Witness ==
    /\ ApiCall /\ Done /\ result.status = "returned"
    /\ nPoints = 3 /\ nValid = 2 /\ Len(result.df) = 1

\* C8: the series the REST-XML decoder returns holds every collected
\* (timestamp, value) pair as often as it was collected: nothing is
\* deduplicated.
C8_NoDeduplication ==
    (ApiCall /\ Done /\ result.status = "returned") =>
        /\ Len(result.df) = Len(all_rows)
        /\ \A i \in 1..Len(all_rows) :
              Count(all_rows[i], result.df) = Count(all_rows[i], all_rows)

\* Two points of one timestamp and different values, and a third point with the
\* same pair as the first, are all in the series.
C8_Witness ==
    /\ ApiCall /\ Done /\ result.status = "returned"
    /\ Len(result.df) = 3
    /\ \A i \in 1..3 : result.df[i].Timestamp = 15
    /\ Count([ Timestamp |-> 15, RevenueEUR |-> 100 ], result.df) = 2
    /\ Count([ Timestamp |-> 15, RevenueEUR |-> 300 ], result.df) = 1

\* The bidding zones of the Domain Registry (spec.md section 6).
RegistryZones == { "DK_2", "DK_1", "SE_4" }

\* The requests sent so far that list files.
ListRequests == { i \in 1..Len(requests) : requests[i].endpoint = "v1/files" }

\* C9: list_files with a bidding zone that the Domain Registry does not hold
\* fails with UnknownZoneError, and no HTTP request has been sent when it does
\* (also when fetch_congestion_income is what called it).
C9_UnknownZoneFailsBeforeRequest ==
    (ctop \in { "list_files", "fetch_congestion_income" }
        /\ bidding_zone \notin RegistryZones)
        => /\ requests = << >>
           /\ cpc \in { "list_files", "done" }
           /\ cpc = "done" => /\ cresult.status = "raised"
                              /\ cresult.error \in UnknownZoneError
                              /\ cresult.value = << >>

C9_Witness ==
    ctop = "list_files" /\ bidding_zone = "NO_1" /\ cpc = "done"

\* C10: a list_files call (of a zone the registry holds) sends exactly one
\* request, for page 0 with size = limit, and returns the content of the answer
\* to it: at most `limit` entries, the first ones of the remote result set;
\* no other page is ever asked for.
C10_OnlyFirstPage ==
    /\ Cardinality(ListRequests) <= 1
    /\ \A i \in ListRequests :
          /\ requests[i].page = 0
          /\ requests[i].size = limit
          /\ requests[i].area = DOMAIN_MAP[bidding_zone]
    /\ (ctop = "list_files" /\ cpc = "done" /\ bidding_zone \in RegistryZones)
          => /\ Len(requests) = 1
             /\ ListRequests = { 1 }
             /\ cresult.status = "returned" =>
                   /\ cresult.value = response.content
                   /\ Len(cresult.value) <= limit
                   /\ \A k \in 1..Len(cresult.value) : cresult.value[k] = remote[k]

\* Three entries match, the limit is 2: two entries are returned.
C10_Witness ==
    /\ ctop = "list_files" /\ cpc = "done" /\ cresult.status = "returned"
    /\ Len(remote) = 3 /\ limit = 2
    /\ Len(requests) = 1
    /\ cresult.value = << remote[1], remote[2] >>

\* The last request sent went to the list / the download endpoint.
LastRequest == requests[Len(requests)]
ListingFailed == requests # << >> /\ LastRequest.endpoint = "v1/files"
DownloadFailed == requests # << >> /\ LastRequest.endpoint = "v1/files/download"

\* What the failing call of C11 gives: DataSourceError with the status and the
\* first 500 characters of the body at most, after one request of the failing
\* call (in a batch: the listing, one request per file saved, and this one).
RaisedDataSourceError ==
    /\ cpc = "done"
    /\ cresult.status = "raised"
    /\ cresult.error \in DataSourceError
    /\ cresult.code = response.status
    /\ Len(cresult.excerpt) <= 500
    /\ Len(cresult.excerpt) = (IF Len(response.text) < 500 THEN Len(response.text) ELSE 500)
    /\ \A i \in 1..Len(cresult.excerpt) : cresult.excerpt[i] = response.text[i]
    /\ Len(requests) = (IF ctop = "fetch_congestion_income" /\ DownloadFailed
                        THEN Len(saved_files) + 2 ELSE 1)

\* C11 (as claimed): every answer to a list or download request whose status
\* is not a success status (2xx) gives DataSourceError with the status and
\* at most the first 500 characters of the body, after exactly one request of
\* the failing call, and the error reaches the caller.
C11_NonSuccessRaises ==
    (requests # << >> /\ response.status \notin 200..299) => RaisedDataSourceError

\* C11 (amended): the same for every answer with a status of 400 or above, the
\* statuses the HTTP library reports as not ok.
C11_NotOkRaises ==
    (requests # << >> /\ response.status >= 400) => RaisedDataSourceError

\* The second download of a batch is answered 500 with a body of 501 characters.
C11_Witness ==
    /\ ctop = "fetch_congestion_income" /\ cpc = "done"
    /\ response.status = 500 /\ Len(response.text) = 501
    /\ Len(cresult.excerpt) = 500
    /\ Len(saved_files) = 1 /\ Len(requests) = 3

\* The call sent its list request and the answer to it was ok and decoded.
ListingAnswered ==
    /\ requests # << >>
    /\ requests[1].endpoint = "v1/files"
    /\ ~(Len(requests) = 1 /\ (response.status >= 400 \/ response.json = "not json"))

\* No file has been written under raw_dir.
NothingWritten == \A name \in FileNames : disk[name] = NoFile

\* C12: when the listing gives zero entries, list_files returns the empty
\* sequence, and fetch_congestion_income returns the empty list of paths: it
\* raises nothing, sends no download request and writes no file.
C12_EmptyListingIsNoError ==
    /\ (ctop = "list_files" /\ ListingAnswered /\ response.content = << >>)
          => /\ cpc = "done"
             /\ cresult.status = "returned"
             /\ cresult.value = << >>
    /\ (ctop = "fetch_congestion_income" /\ ListingAnswered /\ meta = << >>)
          => /\ cpc \in { "fetch_listed", "done" }
             /\ cresult.status # "raised"
             /\ cpc = "done" => (cresult.status = "returned" /\ cresult.value = << >>)
             /\ Len(requests) = 1
             /\ NothingWritten

\* A batch whose listing matched nothing has returned.
C12_Witness ==
    /\ ctop = "fetch_congestion_income" /\ cpc = "done"
    /\ ListingAnswered /\ response.json = "content" /\ remote = << >>
    /\ cresult.status = "returned" /\ cresult.value = << >>

\* The download requests sent so far are those for the first n entries of the
\* listing, in order, one each.
DownloadsAreFirst(n) ==
    /\ Len(requests) = n + 1
    /\ n <= Len(meta)
    /\ \A i \in 1..n : /\ requests[i + 1].endpoint = "v1/files/download"
                       /\ requests[i + 1].fileId = meta[i].fileId

\* C13: when the download of the k-th entry fails in fetch_congestion_income,
\* the call ends at once with the error: the requests sent are the one of the
\* listing and one for each of the entries 1..k (none for a later entry, none
\* twice for entry k), and the caller gets the exception and no path, the
\* k - 1 paths saved before included.
C13_FailedDownloadAborts ==
    (ctop = "fetch_congestion_income" /\ cresult.status = "raised" /\ DownloadFailed)
        => /\ cpc = "done"
           /\ DownloadsAreFirst(Len(saved_files) + 1)
           /\ cresult.error \in { ErrRequestFailed, ErrOpen }
           /\ cresult.value = << >>

\* Of three entries listed, the first was saved and the second failed.
C13_Witness ==
    /\ ctop = "fetch_congestion_income" /\ cpc = "done"
    /\ cresult.status = "raised" /\ DownloadFailed
    /\ Len(meta) = 3 /\ Len(saved_files) = 1 /\ Len(requests) = 3
    /\ cresult.value = << >>

\* The entries before entry k of the listing that carry the file name `name`.
EarlierWith(name, k) == { j \in 1..(k - 1) : meta[j].fileName = name }

\* The file `name` is as the downloads of the entries before k left it: never
\* written, or holding what the last of them with that name wrote.
AsLeftBefore(name, k) ==
    IF EarlierWith(name, k) = {}
    THEN disk[name] = NoFile
    ELSE LET j == CHOOSE i \in EarlierWith(name, k) :
                      \A h \in EarlierWith(name, k) : h <= i
         IN  disk[name] \in { BytesOf(meta[j].fileId), OtherBody }

FileCall == "parse_congestion_income_file" \in invoked
BranchChosen == FileCall /\ pc \in { "file_clean", "done" }

\* C15: the legacy decoder takes the CSV branch for a .csv or .txt path and
\* the XML branch for an .xml path, whatever the file holds; for a path of
\* another extension (.json) it raises UnsupportedFormatError naming the
\* extension, and has not gone to read the file.
C15_BranchByExtension ==
    BranchChosen =>
        /\ path \in { "income.csv", "income.TXT" } => (branch = "csv" /\ file_read)
        /\ path = "income.xml" => (branch = "xml" /\ file_read)
        /\ path = "income.json" =>
              /\ branch = None
              /\ ~file_read
              /\ df = NoFrame
              /\ pc = "done"
              /\ result.status = "raised"
              /\ result.error \in UnsupportedFormatError
              /\ result.detail = ".json"

\* A .json path was refused.
C15_Witness ==
    /\ BranchChosen /\ path = "income.json"
    /\ result.status = "raised" /\ result.detail = ".json" /\ ~file_read

\* The frame the legacy decoder read has the three canonical columns.
HasCanonicalColumns ==
    HasColumn(df, "Start") /\ HasColumn(df, "End") /\ HasColumn(df, "RevenueEUR")

\* Row i of the frame read, its cells coerced; a cell that does not parse is null.
CoercedRow(i) ==
    [ Start      |-> ToDatetimeCoerce(df.rows[i][Column(df, "Start")]),
      End        |-> ToDatetimeCoerce(df.rows[i][Column(df, "End")]),
      RevenueEUR |-> ToNumericCoerce(df.rows[i][Column(df, "RevenueEUR")]) ]

\* The rows of the frame read whose Start and RevenueEUR are not null.
Remaining ==
    { i \in 1..Len(df.rows) : CoercedRow(i).Start # NaT /\ CoercedRow(i).RevenueEUR # NaN }

IsSortOf(d, rows, col) ==
    /\ Len(d) = Len(rows)
    /\ IsSortedBy(d, col)
    /\ \A i \in 1..Len(rows) : Count(rows[i], d) = Count(rows[i], rows)

\* The outcome of the REST-XML decoder on `content`, given the rows it
\* gathered from the document: the relation a direct call satisfies.
ApiOutcome ==
    IF content = "not xml" THEN result = Raised(ErrXmlParse)
    ELSE IF content # "<Doc><TimeSeries>..</TimeSeries></Doc>"
    THEN result = Raised(ErrNoTimeSeries)
    ELSE \/ result \in { Raised(ErrInt), Raised(ErrToDatetime) }
         \/ all_rows = << >> /\ result = Raised(ErrNoValues)
         \/ /\ all_rows # << >>
            /\ result.status = "returned"
            /\ IsSortOf(result.df, all_rows, "Timestamp")

\* The outcome of the legacy decoder on `path`, given the frame it read: the
\* relation a direct call satisfies.
FileOutcome ==
    IF path \notin { "income.csv", "income.TXT", "income.xml" }
    THEN result.status = "raised" /\ result.error = ErrUnsupported
    ELSE IF df = NoFrame
    THEN result = Raised(IF path = "income.xml" THEN ErrCannotParseXml ELSE ErrRead)
    ELSE IF ~HasCanonicalColumns THEN result = Raised(ErrKey)
    ELSE /\ result.status = "returned"
         /\ LET rows == Cleaned(df) IN IsSortOf(result.df, rows, "Start")

DispatchedContent == top = "parse_local_or_api" /\ content # None /\ path = None
DispatchedPath == top = "parse_local_or_api" /\ content = None /\ path # None

\* C17: parse_local_or_api given only content ends as a direct call of the
\* REST-XML decoder on that content does, and never enters the legacy decoder;
\* given only path it ends as a direct call of the legacy decoder on that path
\* does, and never enters the REST-XML decoder.
C17_DispatcherIsTransparent ==
    /\ DispatchedContent => invoked \subseteq { "parse_entsoe_api_xml" }
    /\ DispatchedPath => invoked \subseteq { "parse_congestion_income_file" }
    /\ Done =>
          /\ top = "parse_entsoe_api_xml" => ApiOutcome
          /\ top = "parse_congestion_income_file" => FileOutcome
          /\ DispatchedContent => (invoked = { "parse_entsoe_api_xml" } /\ ApiOutcome)
          /\ DispatchedPath => (invoked = { "parse_congestion_income_file" } /\ FileOutcome)

\* The dispatcher, given only a path, returned the series of the file.
C17_Witness ==
    /\ DispatchedPath /\ Done /\ path = "income.csv"
    /\ invoked = { "parse_congestion_income_file" }
    /\ result.status = "returned" /\ Len(result.df) = 2

\* C18: in the REST-XML decoder a Period without a start (its points counted,
\* none read) adds no row and raises nothing, and the loop over the periods
\* goes on; a Point without a position adds no row and raises nothing, and the
\* loop over the points of the same period goes on; and a document whose
\* other points are decoded without a conversion error gives their rows.
C18_SkipsAreNotErrors ==
    /\ [][ (pc = "api_periods" /\ nPoints' > nPoints)
             => /\ pc' = "api_periods"
                /\ all_rows' = all_rows
                /\ result' = result ]_vars
    /\ [][ (pc = "api_points" /\ nPoints' = nPoints + 1 /\ nValid' = nValid + 1
               /\ nEligible' = nEligible /\ result'.error # ErrInt)
             => /\ pc' = "api_points"
                /\ period_start' = period_start
                /\ all_rows' = all_rows
                /\ result' = result ]_vars
    /\ []( (ApiCall /\ Done /\ nEligible > 0
               /\ result.error \notin { ErrInt, ErrToDatetime })
             => (result.status = "returned" /\ Len(result.df) = nEligible) )

\* Of three points with a value, two were passed over (their period has no
\* start, or they have no position) and the third gave the one row returned.
C18_Witness ==
    /\ ApiCall /\ Done /\ result.status = "returned"
    /\ nPoints = 3 /\ nValid = 3 /\ nEligible = 1
    /\ Len(result.df) = 1

\* The batch is in flight or over.
Batch == ctop = "fetch_congestion_income"

\* C19: in one fetch_congestion_income call the first request is the listing
\* and it is answered before any download is asked for; the n-th download
\* request is the one for the n-th entry listed; and when the request for an
\* entry is sent, the files of all the entries before it have been written
\* and their paths saved.
C19_StepsInSequence ==
    /\ [](Batch =>
            /\ requests # << >> => requests[1].endpoint = "v1/files"
            /\ Len(requests) >= 2 =>
                  /\ meta # << >>
                  /\ meta = Page(requests[1].page, requests[1].size)
                  /\ DownloadsAreFirst(Len(requests) - 1)
                  /\ Len(saved_files) \in { Len(requests) - 2, Len(requests) - 1 }
            /\ \A i \in 1..Len(saved_files) :
                  /\ saved_files[i] = meta[i].fileName
                  /\ disk[meta[i].fileName] # NoFile)
    /\ [][ (Batch /\ Len(requests') > Len(requests) /\ requests # << >>)
             => /\ Len(requests') = Len(requests) + 1
                /\ meta # << >>
                /\ Len(saved_files) = Len(requests) - 1
                /\ requests'[Len(requests')].fileId = meta[Len(requests)].fileId ]_vars

\* Three entries, the first two of different files, were downloaded in order.
C19_Witness ==
    /\ Batch /\ cpc = "done" /\ cresult.status = "returned"
    /\ Len(meta) = 3 /\ meta[1].fileId # meta[2].fileId
    /\ Len(requests) = 4 /\ Len(saved_files) = 3
    /\ \A i \in 1..3 : requests[i + 1].fileId = meta[i].fileId

\* C20 (as claimed): after a fetch_congestion_income batch that succeeded, the
\* file at the i-th path returned holds the bytes downloaded for the fileId of
\* the i-th entry listed, also when two entries carry the same fileName.
C20_EachPathHoldsItsOwnFile ==
    (Batch /\ cpc = "done" /\ cresult.status = "returned") =>
        \A i \in 1..Len(cresult.value) :
            disk[cresult.value[i]] \in { BytesOf(meta[i].fileId), OtherBody }

\* C21: a download_file call whose request is answered with a status that is
\* not ok raises DataSourceError and leaves the filesystem as it was: the
\* parent directory is not made, and a file at dest_path keeps its bytes.
C21_FailedRequestTouchesNothing ==
    [][ (cpc = "download_file" /\ response'.status >= 400)
          => /\ cresult'.status = "raised"
             /\ cresult'.error \in DataSourceError
             /\ parent_dir' = parent_dir
             /\ disk' = disk ]_vars

\* The request for a file that is already at dest_path was answered 500; the
\* file holds the bytes it held before.
C21_Witness ==
    /\ ctop = "download_file" /\ cpc = "done"
    /\ response.status = 500 /\ cresult.status = "raised"
    /\ disk[download.dest_path] = OldBytes

\* C22: a fetch_congestion_income call that returns has sent, after the
\* listing, one download request for each entry listed, in the order listed,
\* and returns one path for each entry, in that order: the i-th path is the
\* file under raw_dir named by the fileName of the i-th entry.
C22_OnePathPerEntry ==
    (Batch /\ cpc = "done" /\ cresult.status = "returned") =>
        /\ DownloadsAreFirst(Len(meta))
        /\ Len(cresult.value) = Len(meta)
        /\ \A i \in 1..Len(meta) : cresult.value[i] = meta[i].fileName

\* Three entries, the first two of different names, gave three paths.
C22_Witness ==
    /\ Batch /\ cpc = "done" /\ cresult.status = "returned"
    /\ Len(meta) = 3 /\ meta[1].fileName # meta[2].fileName
    /\ Len(requests) = 4
    /\ cresult.value = << meta[1].fileName, meta[2].fileName, meta[3].fileName >>

====
